---------------------------- MODULE Spec2Model ----------------------------
(***************************************************************************)
(* Model of a3s-tools-core: the workspace sandbox (src/sandbox.rs) and the *)
(* output truncation utility (src/output.rs).                              *)
(*                                                                         *)
(* A path is the sequence of its segments below the file-system root; the  *)
(* root itself is <<>>.  Segments are kept as written (".", ".." and       *)
(* names), because PathBuf keeps the string it was built from; the         *)
(* operations that Rust defines on components (parent, starts_with, ==)    *)
(* go through Components.  The file system is the environment: a map from  *)
(* real locations to nodes, changed by the environment's actions.          *)
(***************************************************************************)
EXTENDS Naturals, Sequences, FiniteSets, TLC

VARIABLES
    fs,       \* the file system: real location -> node
    pc,       \* "idle": no call in progress; "done": a call has returned
    call,     \* the call that returned: [op, w, p, input]
    ret,      \* what it returned
    checks    \* the boundary comparisons the call made, in order

vars == <<fs, pc, call, ret, checks>>

(***************************************************************************)
(* Bounds of the model.                                                    *)
(***************************************************************************)
\* Longest candidate path, in segments.
MaxLen == 4
\* Symbolic links followed by one canonicalization before it gives up (ELOOP).
MaxLinks == 4
\* How far below and above MAX_OUTPUT_SIZE the output lengths are enumerated.
Slack == 80

(***************************************************************************)
(* Paths.                                                                  *)
(***************************************************************************)
CurDir == "."
ParentDir == ".."

\* Names at the top of the file system, and names used below the workspace.
TopNames == {"ws", "wsx", "tmp", "wl"}
RelSegs == {ParentDir, CurDir, "a", "lnk", "f"}

RECURSIVE SeqsUpTo(_, _)
SeqsUpTo(S, n) ==
    IF n = 0 THEN {<<>>}
    ELSE LET shorter == SeqsUpTo(S, n - 1)
         IN  shorter \cup {Append(s, x) : s \in {t \in shorter : Len(t) = n - 1}, x \in S}

\* The candidate paths a caller passes: a string, absolute or relative.
Candidates ==
    {[abs |-> FALSE, segs |-> s] : s \in SeqsUpTo(RelSegs, MaxLen)}
    \cup {[abs |-> TRUE, segs |-> <<>>]}
    \cup {[abs |-> TRUE, segs |-> <<h>> \o s] :
            h \in TopNames, s \in SeqsUpTo(RelSegs, MaxLen - 1)}

\* The workspace roots a caller passes: a real directory, and a symbolic
\* link to it (as /var -> /private/var on macOS).
Workspaces == {<<"ws">>, <<"wl">>}

\* Path::components: "." segments inside an absolute path are not components.
Components(path) == SelectSeq(path, LAMBDA s : s # CurDir)

RECURSIVE TrimRight(_)
\* Components::as_path: trailing "." segments are trimmed.
TrimRight(path) ==
    IF path # <<>> /\ path[Len(path)] = CurDir
    THEN TrimRight(SubSeq(path, 1, Len(path) - 1))
    ELSE path

\* Path::is_absolute followed by to_path_buf or Path::join.
Join(w, p) == IF p.abs THEN p.segs ELSE w \o p.segs

\* Path::parent: None when the path ends in the root, otherwise the path
\* without its final component.
HasParent(path) == Components(path) # <<>>
Parent(path) ==
    LET t == TrimRight(path)
    IN  TrimRight(SubSeq(t, 1, Len(t) - 1))

\* PathBuf equality compares components.
PathEq(a, b) == Components(a) = Components(b)

RECURSIVE IterAfter(_, _)
\* iter_after: consume the prefix's components off the front of the path's.
IterAfter(iter, prefix) ==
    IF prefix = <<>> THEN TRUE
    ELSE IF iter = <<>> THEN FALSE
    ELSE IF Head(iter) # Head(prefix) THEN FALSE
    ELSE IterAfter(Tail(iter), Tail(prefix))

\* The spelling of each segment, character by character.
NameChars ==
    [s \in TopNames \cup RelSegs |->
        CASE s = "ws" -> <<"w", "s">>
          [] s = "wsx" -> <<"w", "s", "x">>
          [] s = "tmp" -> <<"t", "m", "p">>
          [] s = "wl" -> <<"w", "l">>
          [] s = "lnk" -> <<"l", "n", "k">>
          [] s = ParentDir -> <<".", ".">>
          [] OTHER -> <<s>>]

RECURSIVE RawString(_)
\* A path as the string it displays as: "/" before each component.
RawString(path) ==
    IF path = <<>> THEN <<>>
    ELSE <<"/">> \o NameChars[Head(path)] \o RawString(Tail(path))

IsStringPrefix(pre, s) == Len(pre) <= Len(s) /\ SubSeq(s, 1, Len(pre)) = pre

\* A containment test on the raw strings instead of the components.
StartsWithRawString(path, base) ==
    IsStringPrefix(RawString(Components(base)), RawString(Components(path)))

\* Path::starts_with: component-wise prefix.
StartsWith(path, base) == IterAfter(Components(path), Components(base))

(***************************************************************************)
(* The file system.                                                        *)
(***************************************************************************)
None == [kind |-> "none", target |-> <<>>]
Dir == [kind |-> "dir", target |-> <<>>]
File == [kind |-> "file", target |-> <<>>]
Link(t) == [kind |-> "link", target |-> t]

\* Real locations that are always there, outside the workspace.
Static ==
    (<<"tmp">> :> Dir) @@ (<<"tmp", "f">> :> File) @@
    (<<"wsx">> :> Dir) @@ (<<"wsx", "f">> :> File)

\* Real locations that the environment creates and removes, each with the
\* nodes it may hold.
Mutable ==
    (<<"ws">> :> {Dir}) @@
    (<<"ws", "a">> :> {Dir, File}) @@
    (<<"ws", "a", "f">> :> {File}) @@
    (<<"ws", "lnk">> :> {Link(<<"tmp">>), Link(<<"tmp", "f">>), Link(<<"ws", "a">>)}) @@
    (<<"wl">> :> {Link(<<"ws">>)})

Slots == DOMAIN Static \cup DOMAIN Mutable

\* lstat of a real location.
Lookup(real) ==
    IF real = <<>> THEN Dir
    ELSE IF real \in Slots THEN fs[real]
    ELSE None

Failed == [ok |-> FALSE, path |-> <<>>]
Found(real) == [ok |-> TRUE, path |-> real]

RECURSIVE Walk(_, _, _, _)
\* realpath: walk `rest` from the real location `cur`, following every
\* symbolic link.  With `create`, the final component may be missing (the
\* location an open for writing would create).
Walk(cur, rest, links, create) ==
    IF rest = <<>> THEN Found(cur)
    ELSE IF Lookup(cur).kind # "dir" THEN Failed
    ELSE
        LET seg == Head(rest)
            more == Tail(rest)
            next == Append(cur, seg)
            node == Lookup(next)
        IN  IF seg = CurDir THEN Walk(cur, more, links, create)
            ELSE IF seg = ParentDir
            THEN Walk(IF cur = <<>> THEN cur ELSE SubSeq(cur, 1, Len(cur) - 1),
                      more, links, create)
            ELSE IF node.kind = "none"
            THEN IF create /\ more = <<>> THEN Found(next) ELSE Failed
            ELSE IF node.kind = "link"
            THEN IF links = 0 THEN Failed
                 ELSE Walk(<<>>, node.target \o more, links - 1, create)
            ELSE Walk(next, more, links, create)

\* Path::canonicalize: Err when a component is missing or is not a directory.
Canonicalize(path) == Walk(<<>>, path, MaxLinks, FALSE)


(***************************************************************************)
(* src/error.rs: the two errors the resolvers return.                      *)
(***************************************************************************)
Ok(path) == [ok |-> TRUE, err |-> "", path |-> path]
PathOutsideWorkspace(p) == [ok |-> FALSE, err |-> "PathOutsideWorkspace", path |-> p.segs]

\* The canonicalization error reported as a boundary violation.
PathNotFoundAsOutside(p) == PathOutsideWorkspace(p)

\* map_err(|_| ToolError::PathNotFound(..)) on a failed canonicalize.
PathNotFound(p) == [ok |-> FALSE, err |-> "PathNotFound", path |-> p.segs]

(***************************************************************************)
(* src/sandbox.rs                                                          *)
(***************************************************************************)
\* workspace.canonicalize().unwrap_or_else(|_| workspace.to_path_buf())
CanonicalWorkspace(w) ==
    LET c == Canonicalize(w)
    IN  IF c.ok THEN [path |-> c.path, basis |-> "canonical"]
        ELSE [path |-> w, basis |-> "literal"]

\* parent.canonicalize().unwrap_or_else(|_| parent.to_path_buf())
CanonicalParent(parent) ==
    LET c == Canonicalize(parent)
    IN  IF c.ok THEN [path |-> c.path, basis |-> "canonical"]
        ELSE [path |-> parent, basis |-> "literal"]

\* A boundary comparison, as recorded in `checks`.
Check(lhs, rhs, contained) ==
    [lhs |-> lhs.path, lhsBasis |-> lhs.basis,
     rhs |-> rhs.path, rhsBasis |-> rhs.basis, contained |-> contained]

\* A security check that lets every canonical path through.
ReadContainedAlways(canonical, canonical_workspace) == TRUE

\* canonical.starts_with(&canonical_workspace)
ReadContained(canonical, canonical_workspace) ==
    StartsWith(canonical, canonical_workspace)

\* canonical_parent == canonical_workspace
\*     || canonical_parent.starts_with(&canonical_workspace)
WriteContained(canonical_parent, canonical_workspace) ==
    PathEq(canonical_parent, canonical_workspace)
    \/ StartsWith(canonical_parent, canonical_workspace)

\* resolve_path with the boundary checked on the joined path as written.
ResolvePathLexical(w, p) ==
    LET resolved == Join(w, p)
        canonical == Canonicalize(resolved)
        cw == CanonicalWorkspace(w)
        contained == ReadContained(resolved, cw.path)
    IN  IF ~canonical.ok THEN [result |-> PathNotFound(p), checks |-> <<>>]
        ELSE [result |-> IF contained THEN Ok(canonical.path)
                         ELSE PathOutsideWorkspace(p),
              checks |-> <<Check([path |-> resolved, basis |-> "literal"], cw, contained)>>]

\* resolve_path
ResolvePath(w, p) ==
    LET resolved == Join(w, p)
        canonical == Canonicalize(resolved)
        cw == CanonicalWorkspace(w)
        contained == ReadContained(canonical.path, cw.path)
    IN  IF ~canonical.ok THEN [result |-> PathNotFound(p), checks |-> <<>>]
        ELSE [result |-> IF contained THEN Ok(canonical.path)
                         ELSE PathOutsideWorkspace(p),
              checks |-> <<Check([path |-> canonical.path, basis |-> "canonical"],
                                 cw, contained)>>]

\* resolve_path_for_write returning the canonical parent joined with the
\* file name instead of the path as written.
ResolvePathForWriteCanonical(w, p) ==
    LET resolved == Join(w, p)
        cw == CanonicalWorkspace(w)
        cp == CanonicalParent(Parent(resolved))
        contained == WriteContained(cp.path, cw.path)
        t == TrimRight(resolved)
    IN  IF ~HasParent(resolved) THEN [result |-> Ok(resolved), checks |-> <<>>]
        ELSE [result |-> IF contained THEN Ok(Append(cp.path, t[Len(t)]))
                         ELSE PathOutsideWorkspace(p),
              checks |-> <<Check(cp, cw, contained)>>]

\* resolve_path_for_write
ResolvePathForWrite(w, p) ==
    LET resolved == Join(w, p)
        cw == CanonicalWorkspace(w)
        cp == CanonicalParent(Parent(resolved))
        contained == WriteContained(cp.path, cw.path)
    IN  IF ~HasParent(resolved) THEN [result |-> Ok(resolved), checks |-> <<>>]
        ELSE [result |-> IF contained THEN Ok(resolved)
                         ELSE PathOutsideWorkspace(p),
              checks |-> <<Check(cp, cw, contained)>>]

(***************************************************************************)
(* src/output.rs                                                           *)
(*                                                                         *)
(* A string is described by its length in bytes and by whether byte        *)
(* MAX_OUTPUT_SIZE of it is a character boundary (it is not when a         *)
(* multi-byte character straddles that offset).                            *)
(***************************************************************************)
MAX_OUTPUT_SIZE == 102400

RECURSIVE Digits(_)
\* The length of an unsigned number formatted with {}.
Digits(n) == IF n < 10 THEN 1 ELSE 1 + Digits(n \div 10)

\* The lengths of the output strings enumerated.
OutputLens ==
    {0, 11, 200000, MAX_OUTPUT_SIZE + 1000}
    \cup ((MAX_OUTPUT_SIZE - Slack) .. (MAX_OUTPUT_SIZE + Slack))

\* A character can straddle offset MAX_OUTPUT_SIZE only in a longer string.
Outputs ==
    {[len |-> n, boundary |-> TRUE] : n \in OutputLens}
    \cup {[len |-> n, boundary |-> FALSE] : n \in {m \in OutputLens : m > MAX_OUTPUT_SIZE}}

\* The length of what format! appends to the truncated bytes.
TruncationNotice(len) ==
    Len("\n\n[Output truncated: ") + Digits(len)
    + Len(" bytes total, showing first ") + Digits(MAX_OUTPUT_SIZE) + Len(" bytes]")

\* truncate_output: `kept` bytes of the input, then the notice when `marker`.
\* &output[..MAX_OUTPUT_SIZE] panics when the offset is not a character boundary.
TruncateOutput(output) ==
    IF output.len > MAX_OUTPUT_SIZE
    THEN IF ~output.boundary
         THEN [panic |-> TRUE, kept |-> 0, marker |-> FALSE, len |-> 0]
         ELSE [panic |-> FALSE, kept |-> MAX_OUTPUT_SIZE, marker |-> TRUE,
               len |-> MAX_OUTPUT_SIZE + TruncationNotice(output.len)]
    ELSE [panic |-> FALSE, kept |-> output.len, marker |-> FALSE, len |-> output.len]

(***************************************************************************)
(* The state machine.                                                      *)
(***************************************************************************)
NoPath == [abs |-> FALSE, segs |-> <<>>]
NoOutput == [len |-> 0, boundary |-> TRUE]
NoCall == [op |-> "none", w |-> <<>>, p |-> NoPath, input |-> NoOutput]
NoRet == [ok |-> FALSE, err |-> "", path |-> <<>>]

\* A freshly created workspace directory beside the rest of the file system.
Init ==
    /\ fs = Static @@ [s \in DOMAIN Mutable |-> IF s = <<"ws">> THEN Dir ELSE None]
    /\ pc = "idle"
    /\ call = NoCall
    /\ ret = NoRet
    /\ checks = <<>>

\* The directory a new entry goes into is a real directory.
CanCreate(slot) ==
    /\ pc = "idle"
    /\ fs[slot] = None
    /\ Lookup(SubSeq(slot, 1, Len(slot) - 1)) = Dir

\* The environment: mkdir
Mkdir(slot) ==
    /\ CanCreate(slot)
    /\ Dir \in Mutable[slot]
    /\ fs' = [fs EXCEPT ![slot] = Dir]
    /\ UNCHANGED <<pc, call, ret, checks>>

\* The environment: a new regular file
CreateFile(slot) ==
    /\ CanCreate(slot)
    /\ File \in Mutable[slot]
    /\ fs' = [fs EXCEPT ![slot] = File]
    /\ UNCHANGED <<pc, call, ret, checks>>

\* The environment: symlink
Symlink(slot, node) ==
    /\ CanCreate(slot)
    /\ node.kind = "link"
    /\ fs' = [fs EXCEPT ![slot] = node]
    /\ UNCHANGED <<pc, call, ret, checks>>

\* The environment: unlink, or rmdir of an empty directory
Remove(slot) ==
    /\ pc = "idle"
    /\ fs[slot] # None
    /\ \A child \in DOMAIN Mutable :
         (Len(child) = Len(slot) + 1 /\ SubSeq(child, 1, Len(slot)) = slot)
            => fs[child] = None
    /\ fs' = [fs EXCEPT ![slot] = None]
    /\ UNCHANGED <<pc, call, ret, checks>>

\* A caller resolves a path for reading.
CallResolvePath ==
    /\ pc = "idle"
    /\ \E w \in Workspaces : \E p \in Candidates :
         LET r == ResolvePath(w, p)
         IN  /\ ret' = r.result
             /\ checks' = r.checks
             /\ call' = [op |-> "resolve_path", w |-> w, p |-> p, input |-> NoOutput]
    /\ pc' = "done"
    /\ UNCHANGED fs

\* A caller resolves a path for writing.
CallResolvePathForWrite ==
    /\ pc = "idle"
    /\ \E w \in Workspaces : \E p \in Candidates :
         LET r == ResolvePathForWrite(w, p)
         IN  /\ ret' = r.result
             /\ checks' = r.checks
             /\ call' = [op |-> "resolve_path_for_write", w |-> w, p |-> p,
                         input |-> NoOutput]
    /\ pc' = "done"
    /\ UNCHANGED fs

\* A caller truncates a tool's output.
CallTruncateOutput ==
    /\ pc = "idle"
    /\ \E output \in Outputs :
         /\ ret' = TruncateOutput(output)
         /\ call' = [op |-> "truncate_output", w |-> <<>>, p |-> NoPath,
                     input |-> output]
    /\ checks' = <<>>
    /\ pc' = "done"
    /\ UNCHANGED fs

\* The caller consumes the result; nothing of the call is kept.
Return ==
    /\ pc = "done"
    /\ pc' = "idle"
    /\ call' = NoCall
    /\ ret' = NoRet
    /\ checks' = <<>>
    /\ UNCHANGED fs

Next ==
    \/ \E slot \in DOMAIN Mutable : Mkdir(slot)
    \/ \E slot \in DOMAIN Mutable : CreateFile(slot)
    \/ \E slot \in DOMAIN Mutable : \E node \in Mutable[slot] : Symlink(slot, node)
    \/ \E slot \in DOMAIN Mutable : Remove(slot)
    \/ CallResolvePath
    \/ CallResolvePathForWrite
    \/ CallTruncateOutput
    \/ Return

Spec == Init /\ [][Next]_vars

TypeOK ==
    /\ pc \in {"idle", "done"}
    /\ DOMAIN fs = Slots
    /\ call.op \in {"none", "resolve_path", "resolve_path_for_write", "truncate_output"}

(***************************************************************************)
(* Vocabulary of the properties.                                           *)
(***************************************************************************)
Returned(op) == pc = "done" /\ call.op = op

\* `path` is `root` or lies below it, component by component.
Nested(path, root) ==
    /\ Len(root) <= Len(path)
    /\ \A i \in 1 .. Len(root) : path[i] = root[i]

RECURSIVE Collapse(_, _)
\* The path with "." dropped and ".." applied to the text alone.
Collapse(done, rest) ==
    IF rest = <<>> THEN done
    ELSE IF Head(rest) = CurDir THEN Collapse(done, Tail(rest))
    ELSE IF Head(rest) = ParentDir
    THEN Collapse(IF done = <<>> THEN done ELSE SubSeq(done, 1, Len(done) - 1), Tail(rest))
    ELSE Collapse(Append(done, Head(rest)), Tail(rest))

Lexical(path) == Collapse(<<>>, path)

\* The path the call joined: the candidate itself when absolute, otherwise
\* the workspace followed by the candidate.
Joined == IF call.p.abs THEN call.p.segs ELSE call.w \o call.p.segs

\* The canonical form of the call's workspace, when it has one.
WorkspaceReal == Canonicalize(call.w)

\* Where a write at `path` lands: every link followed, the leaf included;
\* only the last component may be missing.
WriteTarget(path) == Walk(<<>>, path, MaxLinks, TRUE)

\* The entry named by `path` is itself a symbolic link.
IsSymlink(path) ==
    /\ path # <<>>
    /\ path[Len(path)] \notin {CurDir, ParentDir}
    /\ LET dir == Canonicalize(SubSeq(path, 1, Len(path) - 1))
       IN  dir.ok /\ Lookup(Append(dir.path, path[Len(path)])).kind = "link"

\* `path` exists and is (or leads to) a directory.
IsExistingDir(path) ==
    LET c == Canonicalize(path) IN c.ok /\ Lookup(c.path).kind = "dir"

RECURSIVE NearestExisting(_)
\* The deepest existing directory among `path` and its ancestors.
NearestExisting(path) ==
    IF path = <<>> \/ IsExistingDir(path) THEN Canonicalize(path).path
    ELSE NearestExisting(SubSeq(path, 1, Len(path) - 1))

(***************************************************************************)
(* C1.  Whenever resolve_path returns Ok(r), the workspace has a canonical *)
(* form and r is that form or nested under it, component by component.     *)
(***************************************************************************)
C1_ResolvedInsideWorkspace ==
    (Returned("resolve_path") /\ ret.ok)
        => (WorkspaceReal.ok /\ Nested(ret.path, WorkspaceReal.path))

\* A file reached through a symlinked workspace root and a symlink inside it.
C1_Witness ==
    /\ Returned("resolve_path") /\ ret.ok
    /\ call.w = <<"wl">>
    /\ call.p = [abs |-> FALSE, segs |-> <<"lnk", "f">>]
    /\ ret.path = <<"ws", "a", "f">>

(***************************************************************************)
(* C2.  When the joined path exists and its canonical form is outside the  *)
(* canonical form of the workspace, resolve_path returns                   *)
(* PathOutsideWorkspace, never Ok.                                         *)
(***************************************************************************)
C2_OutsideRejected ==
    (/\ Returned("resolve_path")
     /\ Canonicalize(Joined).ok
     /\ WorkspaceReal.ok
     /\ ~Nested(Canonicalize(Joined).path, WorkspaceReal.path))
        => (~ret.ok /\ ret.err = "PathOutsideWorkspace")

\* A symlink inside the workspace that points outside it.
C2_Witness ==
    /\ Returned("resolve_path")
    /\ call.w = <<"ws">>
    /\ call.p = [abs |-> FALSE, segs |-> <<"lnk", "f">>]
    /\ fs[<<"ws", "lnk">>] = Link(<<"tmp">>)
    /\ ret.err = "PathOutsideWorkspace"

(***************************************************************************)
(* C3.  Whenever resolve_path_for_write returns Ok(r), a write at r lands  *)
(* inside the workspace: the real location of r, every link followed (the  *)
(* leaf too), is the canonical workspace root or nested under it.          *)
(***************************************************************************)
C3_WriteLandsInside ==
    (/\ Returned("resolve_path_for_write") /\ ret.ok
     /\ WorkspaceReal.ok
     /\ WriteTarget(ret.path).ok)
        => Nested(WriteTarget(ret.path).path, WorkspaceReal.path)

(***************************************************************************)
(* C4.  resolve_path_for_write returns PathOutsideWorkspace whenever some  *)
(* existing ancestor directory of the joined path, at any depth above the  *)
(* leaf, is a symlink resolving outside the workspace.                     *)
(***************************************************************************)
C4_SymlinkedAncestorRejected ==
    (/\ Returned("resolve_path_for_write")
     /\ WorkspaceReal.ok
     /\ \E k \in 1 .. (Len(TrimRight(Joined)) - 1) :
          LET ancestor == SubSeq(TrimRight(Joined), 1, k)
          IN  /\ IsSymlink(ancestor)
              /\ IsExistingDir(ancestor)
              /\ ~Nested(Canonicalize(ancestor).path, WorkspaceReal.path))
        => (~ret.ok /\ ret.err = "PathOutsideWorkspace")

(***************************************************************************)
(* C5.  resolve_path_for_write returns Ok whenever the nearest existing    *)
(* ancestor directory of the joined path canonicalizes inside the          *)
(* canonical workspace, however many directories are missing and also when *)
(* the workspace is given through a symlink.                               *)
(***************************************************************************)
C5_ExistingAncestorInsideAccepted ==
    (/\ Returned("resolve_path_for_write")
     /\ HasParent(Joined)
     /\ WorkspaceReal.ok
     /\ Nested(NearestExisting(Parent(Joined)), WorkspaceReal.path))
        => ret.ok

(***************************************************************************)
(* C6.  resolve_path_for_write returns an error for every relative         *)
(* candidate whose ".." segments take the joined path outside the          *)
(* workspace, whether or not the workspace or the components exist.        *)
(***************************************************************************)
C6_DotDotEscapeRejected ==
    (/\ Returned("resolve_path_for_write")
     /\ ~call.p.abs
     /\ \E i \in 1 .. Len(call.p.segs) : call.p.segs[i] = ParentDir
     /\ ~Nested(Lexical(Joined), Lexical(call.w)))
        => ~ret.ok

(***************************************************************************)
(* C7.  For a candidate naming a target that does not exist and lies       *)
(* strictly inside the workspace, resolve_path returns PathNotFound, not   *)
(* PathOutsideWorkspace.                                                   *)
(***************************************************************************)
C7_MissingInsideIsNotFound ==
    (/\ Returned("resolve_path")
     /\ ~Canonicalize(Joined).ok
     /\ Nested(Lexical(Joined), Lexical(call.w))
     /\ Lexical(Joined) # Lexical(call.w))
        => (~ret.ok /\ ret.err = "PathNotFound")

\* A missing file in a missing directory of the workspace.
C7_Witness ==
    /\ Returned("resolve_path")
    /\ call.w = <<"ws">>
    /\ call.p = [abs |-> FALSE, segs |-> <<"a", "f">>]
    /\ fs[<<"ws">>] = Dir /\ fs[<<"ws", "a">>] = None
    /\ ret.err = "PathNotFound"

(***************************************************************************)
(* C8.  Every containment test the resolvers make answers "contained"      *)
(* exactly when the path is the root or has all of the root's components   *)
(* as its leading components; a sibling whose name extends the root's last *)
(* component as a string is not contained.                                 *)
(***************************************************************************)
C8_ContainmentIsComponentWise ==
    \A i \in 1 .. Len(checks) :
        checks[i].contained
            <=> Nested(Components(checks[i].lhs), Components(checks[i].rhs))

\* /wsx/f against the root /ws: a string prefix, not a component prefix.
C8_Witness ==
    /\ Returned("resolve_path")
    /\ Len(checks) = 1
    /\ checks[1].lhs = <<"wsx", "f">> /\ checks[1].rhs = <<"ws">>
    /\ IsStringPrefix(RawString(checks[1].rhs), RawString(checks[1].lhs))
    /\ ~checks[1].contained
    /\ ret.err = "PathOutsideWorkspace"

(***************************************************************************)
(* C9.  Whenever resolve_path_for_write returns Ok(r), r is the joined     *)
(* path as written: no link resolved, no "." or ".." collapsed.            *)
(***************************************************************************)
C9_WriteResultIsLexical ==
    (Returned("resolve_path_for_write") /\ ret.ok) => ret.path = Joined

\* Through a symlinked workspace, with "." and ".." in the candidate.
C9_Witness ==
    /\ Returned("resolve_path_for_write") /\ ret.ok
    /\ call.w = <<"wl">>
    /\ call.p = [abs |-> FALSE, segs |-> <<"a", "..", ".", "f">>]
    /\ ret.path = <<"wl", "a", "..", ".", "f">>
    /\ Canonicalize(Parent(ret.path)).path = <<"ws">>

(***************************************************************************)
(* C10.  truncate_output returns its input unchanged when it is at most    *)
(* MAX_OUTPUT_SIZE bytes long; for every longer input it returns a string  *)
(* strictly shorter than the input that contains the truncation marker.    *)
(***************************************************************************)
C10_TruncateShortens ==
    Returned("truncate_output") =>
        IF call.input.len <= MAX_OUTPUT_SIZE
        THEN ~ret.panic /\ ~ret.marker /\ ret.kept = call.input.len
             /\ ret.len = call.input.len
        ELSE ~ret.panic /\ ret.marker /\ ret.len < call.input.len

(***************************************************************************)
(* C11.  In every boundary decision of resolve_path and                    *)
(* resolve_path_for_write the two sides of the comparison are on the same  *)
(* basis: both canonical or both literal.  No call compares a literal      *)
(* path with a canonical workspace root, or the reverse.                   *)
(***************************************************************************)
C11_SameBasis ==
    \A i \in 1 .. Len(checks) : checks[i].lhsBasis = checks[i].rhsBasis

=============================================================================
